---- MODULE Spec2Model ----
(***************************************************************************)
(* A model of feature_reviser: select_with_classifier (selector.py) and    *)
(* revise_classifier (reviser.py).                                         *)
(*                                                                         *)
(* Both functions are synchronous and keep no state between calls, so a    *)
(* behaviour is one call: Init draws the arguments, and one action runs    *)
(* the whole function body, statement by statement in the order of         *)
(* SelectSteps / ReviseSteps, and leaves what the caller can observe: the  *)
(* exception raised or the value returned, and the log of the calls made   *)
(* on the collaborators (check_data, the classifier, scikit-learn).        *)
(*                                                                         *)
(* The statistics scikit-learn computes on the data (chi2, f_classif, the  *)
(* classifier's importances) are black boxes: every score vector over      *)
(* Scores is a possible answer.  What SelectKBest and SelectFromModel do   *)
(* with the scores is modelled as scikit-learn does it.                    *)
(***************************************************************************)
EXTENDS Integers, Sequences, FiniteSets, TLC

\* Bounds of the model.
NCols == 4        \* columns of the input table, named 1..NCols
MaxRows == 2      \* rows of the table, length of the target
MaxScore == 1     \* scores and importances range over 0..MaxScore

Cols == 1..NCols
Labels == {0, 1}
Scores == 0..MaxScore

\* Optional[T]: Python's None, or a value.
None == <<>>
Some(v) == <<v>>
Get(o) == o[1]

Min(a, b) == IF a <= b THEN a ELSE b
Range(f) == {f[i] : i \in DOMAIN f}

RECURSIVE SumSeq(_)
SumSeq(s) == IF s = <<>> THEN 0 ELSE Head(s) + SumSeq(Tail(s))

RECURSIVE SetToSeq(_)
SetToSeq(S) ==
  IF S = {} THEN <<>>
  ELSE LET m == CHOOSE x \in S : \A z \in S : x <= z
       IN <<m>> \o SetToSeq(S \ {m})

Reverse(s) == [i \in 1..Len(s) |-> s[Len(s) + 1 - i]]

\* The entries of s at the positions in sup, in increasing position
\* ([s[i] for i in get_support(indices=True)], and transform's columns).
Pick(s, sup) == LET idx == SetToSeq(sup) IN [j \in 1..Len(idx) |-> s[idx[j]]]

RECURSIVE IsSubseq(_, _)
IsSubseq(s, t) ==
  IF s = <<>> THEN TRUE
  ELSE IF t = <<>> THEN FALSE
  ELSE IF Head(s) = Head(t) THEN IsSubseq(Tail(s), Tail(t))
  ELSE IsSubseq(s, Tail(t))

(***************************************************************************)
(* Data.  A column is its name and its data; the data of the input         *)
(* table's column i is written i, so a column whose name and data differ   *)
(* is a column labelled with another column's values.                      *)
(***************************************************************************)
InputColumns == [i \in 1..NCols |-> [name |-> i, data |-> i]]
Table(rows, columns) == [rows |-> rows, columns |-> columns]
Names(t) == [i \in 1..Len(t.columns) |-> t.columns[i].name]
Data(t) == [i \in 1..Len(t.columns) |-> t.columns[i].data]
Width(t) == Len(t.columns)

\* X[features]: the columns of X with these names, in the list's order.
SelectColumns(X, features) ==
  Table(X.rows,
        [i \in 1..Len(features) |->
           CHOOSE c \in Range(X.columns) : c.name = features[i]])

ZipColumns(names, data) ==
  [i \in 1..Len(names) |-> [name |-> names[i], data |-> data[i]]]

EmptyTable == Table(0, <<>>)

(***************************************************************************)
(* scikit-learn, as the two functions use it.                              *)
(***************************************************************************)
ScoreVectors(n) == [1..n -> Scores]

\* SelectKBest._get_support_mask: nothing for k = 0, else the last k of a
\* stable ascending argsort of the scores (ties go to the later column).
SelectKBest_support(scores, k) ==
  IF k = 0 THEN {}
  ELSE {i \in DOMAIN scores :
          Cardinality({j \in DOMAIN scores :
                         \/ scores[j] > scores[i]
                         \/ scores[j] = scores[i] /\ j > i}) < k}

\* Every support SelectKBest(k) can answer on n columns, over all scores
\* the statistic may give.
KBestSupports ==
  [n \in 0..NCols |->
     [k \in 0..n |-> {SelectKBest_support(sc, k) : sc \in ScoreVectors(n)}]]

\* SelectFromModel's threshold: the given number, or for threshold=None the
\* mean of the importances (estimators without an l1 penalty).  Column i
\* is dropped when its importance is below the threshold.
BelowThreshold_NoDefault(imp, thr, i) ==
  IF thr = None THEN FALSE ELSE imp[i] < Get(thr)

BelowThreshold(imp, thr, i) ==
  IF thr = None THEN imp[i] * Len(imp) < SumSeq(imp) ELSE imp[i] < Get(thr)

\* SelectFromModel._get_support_mask: the first max_features of a stable
\* descending argsort (ties go to the earlier column), less the columns
\* below the threshold.
SelectFromModel_support(imp, thr, maxf) ==
  {i \in DOMAIN imp :
     /\ Cardinality({j \in DOMAIN imp :
                       \/ imp[j] > imp[i]
                       \/ imp[j] = imp[i] /\ j < i}) < maxf
     /\ ~BelowThreshold(imp, thr, i)}

(***************************************************************************)
(* The run of a call: the exception raised so far ("none": still running), *)
(* the calls made on the collaborators, and the locals of the function.    *)
(***************************************************************************)
Start(a) ==
  [error |-> "none", trace |-> <<>>, X |-> a.X,
   cat_df |-> EmptyTable, num_df |-> EmptyTable, cat_sup |-> {}, num_sup |-> {},
   fits |-> <<>>, cat_imp |-> <<>>, num_imp |-> <<>>, sel |-> EmptyTable,
   ret |-> <<>>]

Did(s, event) == [s EXCEPT !.trace = Append(@, event)]
Raise(s, event, err) == [s EXCEPT !.trace = Append(@, event), !.error = err]

\* feature_reviser.utils.check_data, from its contract: the table and the
\* target have the same number of rows, and at least one.
CheckDataFails(X, y) == X.rows # Len(y) \/ X.rows = 0

\* clf.fit(table, y), for a scikit-learn estimator: no fit on a table of
\* no columns; after the fit feature_importances_ holds one importance per
\* column, when the classifier has importances at all.
ClfFit(a, s, table) ==
  IF Width(table) = 0
  THEN {Raise(s, "clf.fit", "sklearn.ValueError")}
  ELSE {[Did(s, "clf.fit") EXCEPT
           !.fits = Append(@, [columns |-> Names(table), importances |-> i])] :
        i \in IF a.clf.has_importances
              THEN {Some(imp) : imp \in ScoreVectors(Width(table))}
              ELSE {None}}

\* clf.feature_importances_, as the last fit left it.
ClfImportances(s) == s.fits[Len(s.fits)].importances

(***************************************************************************)
(* select_with_classifier, statement by statement.                         *)
(***************************************************************************)
SelCheckData(a, s) ==
  IF CheckDataFails(a.X, a.y)
  THEN {Raise(s, "check_data", "DataShapeError")}
  ELSE {Did(s, "check_data")}

SelHasFit(a, s) ==
  IF ~a.clf.has_fit
  THEN {Raise(s, "hasattr_fit", "AttributeError.fit")}
  ELSE {Did(s, "hasattr_fit")}

\* One of the four pre-filter parameters is None.
ConfigIncomplete_All(a) ==
  /\ a.cat_features = None
  /\ a.num_features = None
  /\ a.cat_k_best = None
  /\ a.num_k_best = None

ConfigIncomplete(a) ==
  \/ a.cat_features = None
  \/ a.num_features = None
  \/ a.cat_k_best = None
  \/ a.num_k_best = None

SelConfig(a, s) ==
  IF a.select_k_best_first /\ ConfigIncomplete(a)
  THEN {Raise(s, "config_check", "ValueError.config")}
  ELSE {Did(s, "config_check")}

\* cat_df = X[cat_features]; num_df = X[num_features].  Python raises on
\* X[None].
SelPartition(a, s) ==
  IF ~a.select_k_best_first THEN {s}
  ELSE IF a.cat_features = None \/ a.num_features = None
  THEN {Raise(s, "getitem", "KeyError")}
  ELSE {[s EXCEPT !.cat_df = SelectColumns(a.X, Get(a.cat_features)),
                  !.num_df = SelectColumns(a.X, Get(a.num_features))]}

\* k=min(cat_k_best, cat_df.shape[1] - 1), and the same for num_k_best.
KBestK_NoGuard(bound, n) == Min(bound, n)

KBestK(bound, n) == Min(bound, n - 1)

\* SelectKBest(score, k=...).fit(df, y).  scikit-learn raises on a table of
\* no columns and on a k outside 0..columns; Python raises on min(None, _).
KBestFit(event, bound, df) ==
  IF bound = None THEN {[error |-> "TypeError", sup |-> {}, event |-> event]}
  ELSE LET n == Width(df)
           k == KBestK(Get(bound), n)
       IN IF n = 0 \/ k < 0 \/ k > n
          THEN {[error |-> "sklearn.ValueError", sup |-> {}, event |-> event]}
          ELSE {[error |-> "none", sup |-> sup, event |-> event] :
                sup \in KBestSupports[n][k]}

SelKBestCat(a, s) ==
  IF ~a.select_k_best_first THEN {s}
  ELSE {IF r.error # "none" THEN Raise(s, r.event, r.error)
        ELSE [Did(s, r.event) EXCEPT !.cat_sup = r.sup] :
        r \in KBestFit("SelectKBest.fit.chi2", a.cat_k_best, s.cat_df)}

SelKBestNum(a, s) ==
  IF ~a.select_k_best_first THEN {s}
  ELSE {IF r.error # "none" THEN Raise(s, r.event, r.error)
        ELSE [Did(s, r.event) EXCEPT !.num_sup = r.sup] :
        r \in KBestFit("SelectKBest.fit.f_classif", a.num_k_best, s.num_df)}

\* columns = [cat_df.columns[i] for i in cat support]
\*         + [num_df.columns[i] for i in num support]
Stage1Names_FromX(X, cat_df, cat_sup, num_df, num_sup) ==
  Pick(Names(X), cat_sup) \o Pick(Names(X), num_sup)

Stage1Names(X, cat_df, cat_sup, num_df, num_sup) ==
  Pick(Names(cat_df), cat_sup) \o Pick(Names(num_df), num_sup)

\* np.column_stack((cat_x, num_x)), cat_x and num_x the transforms.
Stage1Data(cat_df, cat_sup, num_df, num_sup) ==
  Pick(Data(cat_df), cat_sup) \o Pick(Data(num_df), num_sup)

SelAssemble(a, s) ==
  IF ~a.select_k_best_first THEN {s}
  ELSE {[s EXCEPT !.X =
           Table(a.X.rows,
                 ZipColumns(Stage1Names(a.X, s.cat_df, s.cat_sup, s.num_df, s.num_sup),
                            Stage1Data(s.cat_df, s.cat_sup, s.num_df, s.num_sup)))]}

\* max_features=max_features or X.shape[1]: None and 0 are both falsy.
MaxFeaturesArg(mf, n) == IF mf = None \/ Get(mf) = 0 THEN n ELSE Get(mf)

\* SelectFromModel(estimator=clf, ...).fit(X, y): scikit-learn raises on a
\* max_features above the number of columns, then fits the classifier.
SelFit(a, s) ==
  IF MaxFeaturesArg(a.max_features, Width(s.X)) > Width(s.X)
  THEN {Raise(s, "SelectFromModel.fit", "sklearn.ValueError")}
  ELSE ClfFit(a, Did(s, "SelectFromModel.fit"), s.X)

\* selected = selector.transform(X); columns = [X.columns[i] for i in
\* selector.get_support(indices=True)].  scikit-learn raises when the
\* fitted classifier has no importances.
SelTransform(a, s) ==
  IF ClfImportances(s) = None
  THEN {Raise(s, "SelectFromModel.transform", "sklearn.ValueError")}
  ELSE LET sup == SelectFromModel_support(
                    Get(ClfImportances(s)), a.threshold,
                    MaxFeaturesArg(a.max_features, Width(s.X)))
       IN {[Did(s, "SelectFromModel.transform") EXCEPT !.sel =
              Table(a.X.rows, ZipColumns(Pick(Names(s.X), sup), Pick(Data(s.X), sup)))]}

\* return (pd.DataFrame(data=selected, columns=columns), y)
SelectReturn_Sliced(selected, y) ==
  <<selected, [i \in 1..Min(Len(y), Width(selected)) |-> y[i]]>>

SelectReturn(selected, y) == <<selected, y>>

SelReturn(a, s) == {[s EXCEPT !.ret = SelectReturn(s.sel, a.y)]}

\* The order of the statements of select_with_classifier.
SelectSteps_ConfigFirst ==
  <<"check_data", "config", "hasattr_fit", "partition", "kbest_cat", "kbest_num",
    "assemble", "fit", "transform", "return">>

SelectSteps_FitCheckFirst ==
  <<"hasattr_fit", "check_data", "config", "partition", "kbest_cat", "kbest_num",
    "assemble", "fit", "transform", "return">>

SelectSteps ==
  <<"check_data", "hasattr_fit", "config", "partition", "kbest_cat", "kbest_num",
    "assemble", "fit", "transform", "return">>

SelectStep(name, a, s) ==
  CASE name = "check_data" -> SelCheckData(a, s)
    [] name = "hasattr_fit" -> SelHasFit(a, s)
    [] name = "config" -> SelConfig(a, s)
    [] name = "partition" -> SelPartition(a, s)
    [] name = "kbest_cat" -> SelKBestCat(a, s)
    [] name = "kbest_num" -> SelKBestNum(a, s)
    [] name = "assemble" -> SelAssemble(a, s)
    [] name = "fit" -> SelFit(a, s)
    [] name = "transform" -> SelTransform(a, s)
    [] name = "return" -> SelReturn(a, s)

\* Every way the call can end: the statements in order, none after a raise.
RECURSIVE SelectRun(_, _, _)
SelectRun(steps, a, S) ==
  IF steps = <<>> THEN S
  ELSE SelectRun(Tail(steps), a,
                 UNION {IF s.error # "none" THEN {s} ELSE SelectStep(Head(steps), a, s) :
                        s \in S})

(***************************************************************************)
(* revise_classifier, statement by statement.                              *)
(***************************************************************************)
RevCheckData(a, s) ==
  IF CheckDataFails(a.X, a.y)
  THEN {Raise(s, "check_data", "DataShapeError")}
  ELSE {Did(s, "check_data")}

\* cat_df = X[cat_features]; num_df = X[num_features]
RevPartition(a, s) ==
  {[s EXCEPT !.cat_df = SelectColumns(a.X, Get(a.cat_features)),
             !.num_df = SelectColumns(a.X, Get(a.num_features))]}

RevHasFit(a, s) ==
  IF ~a.clf.has_fit
  THEN {Raise(s, "hasattr_fit", "AttributeError.fit")}
  ELSE {Did(s, "hasattr_fit")}

RevFitCat(a, s) == ClfFit(a, s, s.cat_df)

\* if not hasattr(clf, "feature_importances_"): raise ...
\* cat_feature_importances = clf.feature_importances_
RevImportancesCat(a, s) ==
  IF ClfImportances(s) = None
  THEN {Raise(s, "hasattr_feature_importances", "AttributeError.feature_importances")}
  ELSE {[Did(s, "hasattr_feature_importances") EXCEPT
           !.cat_imp = Get(ClfImportances(s))]}

RevFitNum(a, s) == ClfFit(a, s, s.num_df)

RevImportancesNum(a, s) ==
  IF ClfImportances(s) = None
  THEN {Raise(s, "hasattr_feature_importances", "AttributeError.feature_importances")}
  ELSE {[Did(s, "hasattr_feature_importances") EXCEPT
           !.num_imp = Get(ClfImportances(s))]}

\* chi2, mutual_info_classif, f_classif and the Spearman correlation.
RevStatistics(a, s) ==
  {[s EXCEPT !.trace = @ \o <<"chi2", "mutual_info_classif", "f_classif", "spearman">>]}

\* The feature_importance row of result_cat_df.
CatImportanceRow_Latest(s) == Get(ClfImportances(s))

CatImportanceRow(s) == s.cat_imp

\* result_cat_df, results_num_df (the statistics' values are not modelled)
\* and the return.
RevTables(a, s) ==
  {[s EXCEPT !.ret =
      <<[index |-> <<"chi_2", "p_value", "mutal_information", "feature_importance">>,
         columns |-> Names(s.cat_df),
         feature_importance |-> CatImportanceRow(s)],
        [index |-> <<"f_statistic", "p_value", "feature_importance", "correlation">>,
         columns |-> Names(s.num_df),
         feature_importance |-> s.num_imp]>>]}

\* The order of the statements of revise_classifier.
ReviseSteps_CheckDataLate ==
  <<"partition", "hasattr_fit", "fit_cat", "importances_cat", "fit_num",
    "importances_num", "check_data", "statistics", "tables">>

ReviseSteps ==
  <<"check_data", "partition", "hasattr_fit", "fit_cat", "importances_cat",
    "fit_num", "importances_num", "statistics", "tables">>

ReviseStep(name, a, s) ==
  CASE name = "check_data" -> RevCheckData(a, s)
    [] name = "partition" -> RevPartition(a, s)
    [] name = "hasattr_fit" -> RevHasFit(a, s)
    [] name = "fit_cat" -> RevFitCat(a, s)
    [] name = "importances_cat" -> RevImportancesCat(a, s)
    [] name = "fit_num" -> RevFitNum(a, s)
    [] name = "importances_num" -> RevImportancesNum(a, s)
    [] name = "statistics" -> RevStatistics(a, s)
    [] name = "tables" -> RevTables(a, s)

RECURSIVE ReviseRun(_, _, _)
ReviseRun(steps, a, S) ==
  IF steps = <<>> THEN S
  ELSE ReviseRun(Tail(steps), a,
                 UNION {IF s.error # "none" THEN {s} ELSE ReviseStep(Head(steps), a, s) :
                        s \in S})

(***************************************************************************)
(* The calls.                                                              *)
(***************************************************************************)
Targets == UNION {[1..n -> Labels] : n \in 0..MaxRows}
Classifiers == [has_fit : BOOLEAN, has_importances : BOOLEAN]

\* Lists of column names: a set of the table's columns, in the table's
\* order or in the reverse order.
FeatureLists ==
  {SetToSeq(S) : S \in SUBSET Cols} \cup {Reverse(SetToSeq(S)) : S \in SUBSET Cols}

\* The column roles: two disjoint lists.
Partitions == {p \in FeatureLists \X FeatureLists : Range(p[1]) \cap Range(p[2]) = {}}

KBounds == -1..NCols
Thresholds == 0..(MaxScore + 1)

\* A well-formed call, which the calls below vary.
GoodClf == [has_fit |-> TRUE, has_importances |-> TRUE]
GoodY == [i \in 1..MaxRows |-> i % 2]
GoodCat == SetToSeq(1..(NCols \div 2))
GoodNum == SetToSeq((NCols \div 2 + 1)..NCols)

Call(op, rows, y, clf, first, cat, num, ck, nk, thr, mf) ==
  [op |-> op, X |-> Table(rows, InputColumns), y |-> y, clf |-> clf,
   select_k_best_first |-> first, cat_features |-> cat, num_features |-> num,
   cat_k_best |-> ck, num_k_best |-> nk, threshold |-> thr, max_features |-> mf]

\* Every shape of the data and every classifier, with each pre-filter
\* parameter given or not.
ValidationCalls ==
  {Call("select", rows, y, clf, TRUE, cat, num, ck, nk, None, None) :
     rows \in 0..MaxRows, y \in Targets, clf \in Classifiers,
     cat \in {None, Some(GoodCat)}, num \in {None, Some(GoodNum)},
     ck \in {None, Some(1)}, nk \in {None, Some(1)}}
  \cup
  {Call("select", rows, y, clf, FALSE, None, None, None, None, None, None) :
     rows \in 0..MaxRows, y \in Targets, clf \in Classifiers}
  \cup
  {Call("revise", rows, y, clf, FALSE, Some(GoodCat), Some(GoodNum), None, None, None, None) :
     rows \in 0..MaxRows, y \in Targets, clf \in Classifiers}

\* Every column partition and every pair of bounds of the pre-filter.
PreFilterCalls ==
  {Call("select", MaxRows, GoodY, GoodClf, TRUE, Some(p[1]), Some(p[2]),
        Some(ck), Some(nk), None, None) :
     p \in Partitions, ck \in KBounds, nk \in KBounds}

\* Every threshold and max_features, on the whole table and on a
\* pre-filtered one.
ModelFilterCalls ==
  {Call("select", MaxRows, GoodY, GoodClf, first, Some(GoodCat), Some(GoodNum),
        Some(NCols), Some(NCols), thr, mf) :
     first \in BOOLEAN,
     thr \in {None} \cup {Some(t) : t \in Thresholds},
     mf \in {None} \cup {Some(m) : m \in 0..NCols}}

\* revise_classifier on every column partition.
ReviseCalls ==
  {Call("revise", MaxRows, GoodY, GoodClf, FALSE, Some(p[1]), Some(p[2]),
        None, None, None, None) :
     p \in Partitions}

Calls == ValidationCalls \cup PreFilterCalls \cup ModelFilterCalls \cup ReviseCalls

VARIABLES args, pc, error, trace, stage1, fits, ret

vars == <<args, pc, error, trace, stage1, fits, ret>>

Init ==
  /\ args \in Calls
  /\ pc = "call"
  /\ error = "none"
  /\ trace = <<>>
  /\ stage1 = [cat_df |-> EmptyTable, num_df |-> EmptyTable,
               cat_sup |-> {}, num_sup |-> {}, X |-> EmptyTable]
  /\ fits = <<>>
  /\ ret = <<>>

\* What a finished run leaves.
Finish(r) ==
  /\ pc' = "done"
  /\ error' = r.error
  /\ trace' = r.trace
  /\ stage1' = [cat_df |-> r.cat_df, num_df |-> r.num_df,
                cat_sup |-> r.cat_sup, num_sup |-> r.num_sup, X |-> r.X]
  /\ fits' = r.fits
  /\ ret' = r.ret
  /\ UNCHANGED args

SelectWithClassifier ==
  /\ pc = "call"
  /\ args.op = "select"
  /\ \E r \in SelectRun(SelectSteps, args, {Start(args)}) : Finish(r)

ReviseClassifier ==
  /\ pc = "call"
  /\ args.op = "revise"
  /\ \E r \in ReviseRun(ReviseSteps, args, {Start(args)}) : Finish(r)

Next == SelectWithClassifier \/ ReviseClassifier

Spec == Init /\ [][Next]_vars

(***************************************************************************)
(* Properties.                                                             *)
(***************************************************************************)
Done == pc = "done"
SelectDone == Done /\ args.op = "select"
ReviseDone == Done /\ args.op = "revise"
Returned == Done /\ error = "none"

\* The data breaks the shape rule: row counts differ, or there is no row.
ShapeBad == args.X.rows # Len(args.y) \/ args.X.rows = 0

\* The pre-filter is requested and one of its four parameters is absent.
MissingPreFilterParam ==
  /\ args.select_k_best_first
  /\ None \in {args.cat_features, args.num_features, args.cat_k_best, args.num_k_best}

Events == Range(trace)
FitEvents == {"clf.fit", "SelectFromModel.fit", "SelectFromModel.transform"}
StatisticEvents ==
  {"SelectKBest.fit.chi2", "SelectKBest.fit.f_classif",
   "chi2", "mutual_info_classif", "f_classif", "spearman"}
NoComputation == Events \cap (FitEvents \cup StatisticEvents) = {} /\ fits = <<>>

\* The pre-filter stage ran to its end: the model-based stage was entered
\* with the table the pre-filter assembled.
PreFilterRan ==
  SelectDone /\ args.select_k_best_first /\ "SelectFromModel.fit" \in Events

\* C1, as stated: the validation of select_with_classifier reports the
\* earliest violated rule in the order data shape, configuration
\* completeness, classifier capability.
C1_OrderAsStated ==
  SelectDone =>
    /\ ShapeBad => error = "DataShapeError"
    /\ ~ShapeBad /\ MissingPreFilterParam => error = "ValueError.config"
    /\ ~ShapeBad /\ ~MissingPreFilterParam /\ ~args.clf.has_fit
         => error = "AttributeError.fit"

\* C1, amended: the order is data shape, classifier capability (fit), then
\* configuration completeness, then computation; the error reported is
\* that of the earliest violated rule in this order, and a call that
\* passes all three has made the three checks in this order before
\* anything else.
C1_ValidationOrder ==
  SelectDone =>
    /\ ShapeBad => error = "DataShapeError"
    /\ ~ShapeBad /\ ~args.clf.has_fit => error = "AttributeError.fit"
    /\ ~ShapeBad /\ args.clf.has_fit /\ MissingPreFilterParam
         => error = "ValueError.config"
    /\ ~ShapeBad /\ args.clf.has_fit /\ ~MissingPreFilterParam
         => /\ error \notin {"DataShapeError", "AttributeError.fit", "ValueError.config"}
            /\ SubSeq(trace, 1, 3) = <<"check_data", "hasattr_fit", "config_check">>

\* A call with a missing pre-filter parameter and a classifier without
\* fit, on well-shaped data, has raised the capability error.
C1_Witness ==
  /\ SelectDone
  /\ ~ShapeBad /\ MissingPreFilterParam /\ ~args.clf.has_fit
  /\ error = "AttributeError.fit"

\* C2: on mismatched row counts or zero rows select_with_classifier raises
\* the data-shape error, and check_data is the only call it has made: no
\* capability check, no classifier fit, no selector fitted.
C2_ShapeErrorFirst ==
  SelectDone /\ ShapeBad =>
    /\ error = "DataShapeError"
    /\ trace = <<"check_data">>
    /\ fits = <<>>

C2_Witness ==
  /\ SelectDone
  /\ args.X.rows # Len(args.y)
  /\ ~args.clf.has_fit
  /\ MissingPreFilterParam
  /\ error = "DataShapeError"

\* C3, as stated (on well-shaped data): with the pre-filter requested and
\* one of its four parameters absent, select_with_classifier raises the
\* configuration error and performs no computation.
C3_ConfigErrorAsStated ==
  SelectDone /\ ~ShapeBad /\ MissingPreFilterParam =>
    error = "ValueError.config" /\ NoComputation

\* C3, amended: with the pre-filter requested and one of its four
\* parameters absent, the call always fails and performs no computation;
\* the error is the configuration error when the data is well shaped and
\* the classifier has fit, and the capability error when the data is well
\* shaped and the classifier has no fit.
C3_ConfigError ==
  SelectDone /\ MissingPreFilterParam =>
    /\ error # "none"
    /\ NoComputation
    /\ ~ShapeBad /\ args.clf.has_fit => error = "ValueError.config"
    /\ ~ShapeBad /\ ~args.clf.has_fit => error = "AttributeError.fit"

\* Only num_k_best is omitted, on good data and a good classifier.
C3_Witness ==
  /\ SelectDone
  /\ ~ShapeBad /\ args.clf.has_fit /\ args.select_k_best_first
  /\ args.num_k_best = None
  /\ None \notin {args.cat_features, args.num_features, args.cat_k_best}
  /\ error = "ValueError.config"

\* The model-based stage ran with neither threshold nor max_features.
NoThresholdNoMax ==
  /\ SelectDone /\ Returned
  /\ args.threshold = None /\ args.max_features = None

\* C4, as stated: with neither threshold nor max_features the model-based
\* stage returns exactly the columns it was given.
C4_NoOpAsStated ==
  NoThresholdNoMax => ret[1].columns = stage1.X.columns

\* C4, amended: with neither threshold nor max_features the model-based
\* stage returns, in their order, exactly the columns whose importance is
\* not below the mean importance: at least one column, and all of them
\* only when no importance is below the mean.
C4_MeanThreshold ==
  NoThresholdNoMax =>
    LET imp == Get(fits[Len(fits)].importances)
        kept == {i \in 1..Len(imp) : imp[i] * Len(imp) >= SumSeq(imp)}
    IN /\ fits[Len(fits)].columns = Names(stage1.X)
       /\ ret[1].columns = Pick(stage1.X.columns, kept)
       /\ ret[1].columns # <<>>
       /\ ret[1].rows = args.X.rows

\* A column was dropped with no threshold and no max_features.
C4_Witness ==
  /\ NoThresholdNoMax
  /\ Width(ret[1]) < Width(stage1.X)

\* C5: the pre-filter retains from each partition at most
\* min(requested bound, columns available - 1) columns.
C5_PreFilterBound ==
  PreFilterRan =>
    /\ Cardinality(stage1.cat_sup)
         <= Min(Get(args.cat_k_best), Len(Get(args.cat_features)) - 1)
    /\ Cardinality(stage1.num_sup)
         <= Min(Get(args.num_k_best), Len(Get(args.num_features)) - 1)
    /\ Width(stage1.X) = Cardinality(stage1.cat_sup) + Cardinality(stage1.num_sup)

\* A partition of one column, and a bound larger than the other partition.
C5_Witness ==
  /\ PreFilterRan
  /\ Len(Get(args.cat_features)) = 1
  /\ Get(args.cat_k_best) > 1
  /\ Get(args.num_k_best) > Len(Get(args.num_features))
  /\ Cardinality(stage1.num_sup) = Len(Get(args.num_features)) - 1
  /\ Cardinality(stage1.num_sup) >= 2

\* The errors of the validation rules: data shape, configuration
\* completeness, classifier capability (fit, feature importances).
ValidationErrors ==
  {"DataShapeError", "ValueError.config", "AttributeError.fit",
   "AttributeError.feature_importances"}

\* C6, as stated: whenever a call of either operation fails a validation
\* rule, no classifier fit and no statistical test has been performed.
C6_EagerAsStated ==
  Done /\ error \in ValidationErrors => NoComputation

\* C6, amended: the data-shape, fit-capability and configuration checks
\* happen before any fitting or statistical computation.  The
\* feature-importances check does not: revise_classifier makes it after a
\* fit of the classifier, one or two fits having been made and no
\* statistical test yet, and select_with_classifier does not make it at
\* all: a classifier without importances is fitted and then fails inside
\* scikit-learn.
C6_EagerValidation ==
  Done =>
    /\ error \in {"DataShapeError", "ValueError.config", "AttributeError.fit"}
         => NoComputation
    /\ error = "AttributeError.feature_importances"
         => /\ args.op = "revise"
            /\ Len(fits) \in {1, 2}
            /\ "clf.fit" \in Events
            /\ Events \cap StatisticEvents = {}
    /\ args.op = "select" /\ ~args.clf.has_importances /\ "clf.fit" \in Events
         => error = "sklearn.ValueError"

\* revise_classifier has raised for a classifier without importances.
C6_Witness ==
  /\ ReviseDone
  /\ error = "AttributeError.feature_importances"
  /\ "clf.fit" \in Events

\* C7: on every successful call of select_with_classifier the returned
\* target is the input target, values and order.
C7_TargetUnchanged ==
  SelectDone /\ Returned => ret[2] = args.y

\* A successful call with the pre-filter, fewer columns returned than
\* target rows, and a target of distinct labels.
C7_Witness ==
  /\ SelectDone /\ Returned
  /\ args.select_k_best_first
  /\ Len(args.y) >= 2
  /\ args.y[1] # args.y[2]
  /\ Width(ret[1]) < Len(args.y)
  /\ ret[2] = args.y

\* C8: whenever max_features is supplied, from 0 up to the number of
\* columns entering the model-based stage, the returned table has at most
\* max_features columns.
C8_MaxFeaturesAsStated ==
  SelectDone /\ Returned /\ args.max_features # None
    => Width(ret[1]) <= Get(args.max_features)

\* C9: with the pre-filter, the Stage 1 table is the kept categorical
\* columns followed by the kept numerical columns, each in the order of
\* its list; the returned columns are a subsequence of it; every returned
\* column is in cat_features or num_features; no numerical column
\* precedes a categorical one; every returned name labels the data of the
\* input column of that name.
C9_StageOneOrder ==
  SelectDone /\ Returned /\ args.select_k_best_first =>
    LET cat == Get(args.cat_features)
        num == Get(args.num_features)
        out == ret[1].columns
    IN /\ stage1.X.columns =
            Pick(stage1.cat_df.columns, stage1.cat_sup)
              \o Pick(stage1.num_df.columns, stage1.num_sup)
       /\ Names(stage1.cat_df) = cat
       /\ Names(stage1.num_df) = num
       /\ IsSubseq(out, stage1.X.columns)
       /\ \A i \in 1..Len(out) : out[i].name \in Range(cat) \cup Range(num)
       /\ \A i, j \in 1..Len(out) :
            i < j => ~(out[i].name \in Range(num) /\ out[j].name \in Range(cat))
       /\ \A i \in 1..Len(out) : out[i].data = out[i].name

\* A categorical and a numerical column are returned, in an order that is
\* not the input table's.
C9_Witness ==
  /\ SelectDone /\ Returned /\ args.select_k_best_first
  /\ Width(ret[1]) = 2
  /\ ret[1].columns[1].name \in Range(Get(args.cat_features))
  /\ ret[1].columns[2].name \in Range(Get(args.num_features))
  /\ ret[1].columns[1].name > ret[1].columns[2].name

\* C10: revise_classifier fits the classifier once per partition, the
\* categorical partition first, and each result table's feature_importance
\* row holds the importances of the fit on its own partition.
C10_ImportancesPerPartition ==
  ReviseDone /\ Returned =>
    /\ Len(fits) = 2
    /\ Len(SelectSeq(trace, LAMBDA e : e = "clf.fit")) = 2
    /\ fits[1].columns = Get(args.cat_features)
    /\ fits[2].columns = Get(args.num_features)
    /\ ret[1].columns = Get(args.cat_features)
    /\ ret[2].columns = Get(args.num_features)
    /\ ret[1].feature_importance = Get(fits[1].importances)
    /\ ret[2].feature_importance = Get(fits[2].importances)

\* Two partitions of the same size whose fits gave different importances.
C10_Witness ==
  /\ ReviseDone /\ Returned
  /\ Len(Get(args.cat_features)) = Len(Get(args.num_features))
  /\ Get(fits[1].importances) # Get(fits[2].importances)
  /\ ret[1].feature_importance = Get(fits[1].importances)

====
